---- MODULE Spec2Model ----
(***************************************************************************)
(* ePlant tree views: the Newick parser, the metadata binding, the view    *)
(* states of the Dendrogram components and the d3 zoom/pan viewport.       *)
(*                                                                         *)
(* Three components are modelled, each with its own specification:         *)
(*   SpecZoom  - the static Dendrogram with the bounded zoom               *)
(*               (TestClusterView/Dendrogram.tsx, second component),       *)
(*   SpecParse - newickToD3 applied to bounded input strings               *)
(*               (TestClusterView/placeholder.tsx),                        *)
(*   Spec      - the fetching Dendrogram view                              *)
(*               (TestClusterView/placeholder.tsx).                        *)
(*                                                                         *)
(* Units.  A zoom scale k is held as K2 = 2k, so the scale extent          *)
(* [0.5, 5] is K2 in 1..10.  The translation of the zoom behaviour's       *)
(* transform is in pixels; the translation of the transform written to     *)
(* the content group is in half pixels (field names x2, y2), because it    *)
(* is x + k * c with k a multiple of one half.                             *)
(***************************************************************************)
EXTENDS Integers, Sequences, FiniteSets, TLC

VARIABLES
    dimensions,   \* useState {width, height, boundsWidth, boundsHeight}
    zoomT,        \* the zoom behaviour's transform (svg.__zoom): [k2, x, y]
    gT,           \* the transform attribute of the content group: [k2, x2, y2]
    transition,   \* the animated reset: [active, from, step]
    dragging,     \* a mouse pan gesture is in progress
    resets,       \* double-click resets so far (history variable)
    lastEvent,    \* the event handled last (history variable)
    args,         \* SpecParse: the arguments of one newickToD3 call
    result,       \* SpecParse: what the call returned or threw
    apiUrl,       \* Spec: the apiUrl of the DendrogramContext
    primaryGene,  \* Spec: useState primaryGene
    species,      \* Spec: useState species
    treeData,     \* Spec: useState treeData (Null or the response)
    error,        \* Spec: useState error ("" for null)
    pending,      \* Spec: the URLs of the fetches in flight
    treeUrl,      \* Spec: the URL whose fetch delivered treeData (history variable)
    layoutView,   \* SpecLayout: the component whose tree is laid out
    layoutTree,   \* SpecLayout: the Newick text of the component
    layoutDims,   \* SpecLayout: useState dimensions of the component
    hierarchy,    \* SpecLayout: the nodes of the hierarchy memo (Null: no hierarchy)
    dendrogram,   \* SpecLayout: the dendrogram memo, Null or the root
    runs,         \* SpecLayout: evaluations of the dendrogram memo so far (history variable)
    available,    \* SpecPoll: window.d3.phylogram is defined
    mounted,      \* SpecPoll: the component is mounted (containerRef.current is the div)
    newick,       \* SpecPoll: the newick prop of the last render
    chains,       \* SpecPoll: the polling chain of every effect run: [data, state]
    container,    \* SpecPoll: what the div holds: the data of the builds, in order
    geneticElements, \* SpecGenes: the gene list of the GenesContext
    closure,      \* SpecGenes: the gene list that the last render of LeftNav read
    dirty,        \* SpecGenes: the list has been set since the last render
    effectDue,    \* SpecGenes: the last render has not run its effect yet
    lastAdd,      \* SpecGenes: the argument of the last addGeneticElements (history variable)
    activeGene,   \* SpecGenes: the active gene of the pane ("" for none)
    scaleText,    \* SpecScale: the Newick text of the nodes
    scaleW,       \* SpecScale: the argument w
    scaleNodes,   \* SpecScale: the nodes after scaleBranchLengths (Null before the call)
    rootDist      \* SpecScale: node.rootDist of every node

zoomVars == <<dimensions, zoomT, gT, transition, dragging, resets, lastEvent>>
parseVars == <<args, result>>
viewVars == <<apiUrl, primaryGene, species, treeData, error, pending, treeUrl>>
layoutVars == <<layoutView, layoutTree, layoutDims, hierarchy, dendrogram, runs>>
pollVars == <<available, mounted, newick, chains, container>>
geneVars == <<geneticElements, closure, dirty, effectDue, lastAdd, activeGene>>
scaleVars == <<scaleText, scaleW, scaleNodes, rootDist>>

vars == <<dimensions, zoomT, gT, transition, dragging, resets, lastEvent,
          args, result, apiUrl, primaryGene, species, treeData, error, pending, treeUrl,
          layoutView, layoutTree, layoutDims, hierarchy, dendrogram, runs,
          available, mounted, newick, chains, container,
          geneticElements, closure, dirty, effectDue, lastAdd, activeGene,
          scaleText, scaleW, scaleNodes, rootDist>>

Max(a, b) == IF a >= b THEN a ELSE b
Min(a, b) == IF a <= b THEN a ELSE b

(***************************************************************************)
(* Bounds of the model.                                                    *)
(***************************************************************************)
MaxPanSteps == 2        \* |x|, |y| of the behaviour's transform stay <= MaxPanSteps * PanStep
TransitionSteps == 2    \* animation frames of one 750 ms reset
MaxResets == 1          \* double-click resets in one run
MaxLen == 4             \* SpecParse: every string of up to MaxLen characters is parsed
MaxTreeLen == 4         \* SpecLayout: every text of up to MaxTreeLen characters is laid out
MaxRuns == 2            \* SpecLayout: evaluations of the dendrogram memo after the first

Widths == {0, 60, 120, 300, 2000}   \* container widths a resize can deliver
Pointers == {0, 60}                 \* pointer coordinates of a wheel event
Scales2 == {1, 2, 4, 10}            \* scales a wheel gesture stops at, doubled

(***************************************************************************)
(* Program constants of the static Dendrogram.                             *)
(***************************************************************************)
MARGIN_A == [top |-> 60, right |-> 60, bottom |-> 60, left |-> 60]
MIN_NODE_SPACING_A == 100
LeafCountA == 10        \* leaves of NEWICK_STRING
padding == 100
ScaleMin2 == 1          \* scaleExtent([0.5, 5]), doubled
ScaleMax2 == 10

PanStep == MARGIN_A.left    \* the length of one pan movement
MaxT == MaxPanSteps * PanStep
Pans == {<<PanStep, 0>>, <<-PanStep, 0>>, <<0, PanStep>>, <<0, -PanStep>>}

Identity == [k2 |-> 2, x |-> 0, y |-> 0]
IdentityG == [k2 |-> 2, x2 |-> 0, y2 |-> 0]
NoTransition == [active |-> FALSE, from |-> Identity, step |-> 0]

\* d3.zoomIdentity.translate(MARGIN.left, MARGIN.top)
ResetTransform == [k2 |-> 2, x |-> MARGIN_A.left, y |-> MARGIN_A.top]

(***************************************************************************)
(* updateDimensions: the dimensions computed from the container width.     *)
(* Math.max(400, w * 0.6) is exact for the widths used (multiples of 5).   *)
(***************************************************************************)
UpdateDimensions(w) ==
    LET baseHeight == Max(400, (w * 3) \div 5)
        minHeight == Max(baseHeight,
                         LeafCountA * MIN_NODE_SPACING_A + MARGIN_A.top + MARGIN_A.bottom)
    IN [width |-> w,
        height |-> minHeight,
        boundsWidth |-> w - MARGIN_A.right - MARGIN_A.left,
        boundsHeight |-> minHeight - MARGIN_A.top - MARGIN_A.bottom]

\* useMemo dendrogram: null when a bound is 0 (the hierarchy of the constant
\* NEWICK_STRING is never null).
DendrogramNullA(d) == d.boundsHeight = 0 \/ d.boundsWidth = 0

\* The svg and its content group are rendered.
Mounted(d) == d.width # 0 /\ ~DendrogramNullA(d)

(***************************************************************************)
(* setZoomBounds.  transform.translate(a, b) of d3 is the transform        *)
(* (k, x + k * a, y + k * b): the clamped translation is composed with     *)
(* the transform, it does not replace its translation.  With k = K2 / 2    *)
(* the result, doubled, is 2x + K2 * a.  The bounds are compared doubled   *)
(* too, so that W * k stays an integer.                                    *)
(***************************************************************************)
SetZoomBounds(t, d) ==
    LET xMin2 == -(d.width * t.k2 - 2 * padding)
        xMax2 == 2 * padding
        yMin2 == -(d.height * t.k2 - 2 * padding)
        yMax2 == 2 * padding
        cx2 == Min(xMax2, Max(xMin2, 2 * t.x))   \* clamped x, doubled
        cy2 == Min(yMax2, Max(yMin2, 2 * t.y))
    IN [k2 |-> t.k2,
        x2 |-> 2 * t.x + (t.k2 * cx2) \div 2,
        y2 |-> 2 * t.y + (t.k2 * cy2) \div 2]

\* The "zoom" listener: the constrained transform becomes the attribute of g.
OnZoom(t, d) == SetZoomBounds(t, d)

InRange(t) == t.x \in -MaxT..MaxT /\ t.y \in -MaxT..MaxT

(***************************************************************************)
(* d3-zoom interrupts the transitions of the element when a gesture        *)
(* starts (mousedown, first wheel event) and when zoom.transform is        *)
(* called on a selection; the behaviour's transform keeps the value of     *)
(* the last frame.                                                         *)
(***************************************************************************)
\* A variant in which a gesture leaves the transition running.
NoInterrupt(tr) == tr

Interrupt(tr) == NoTransition

(***************************************************************************)
(* Strings are sequences of one-character strings.  JavaScript values      *)
(* that may be undefined or NaN are records [kind, n, s].                  *)
(***************************************************************************)
Undefined == [kind |-> "undefined", n |-> 0, s |-> <<>>]
NaN == [kind |-> "NaN", n |-> 0, s |-> <<>>]
Num(v) == [kind |-> "number", n |-> v, s |-> <<>>]
Str(t) == [kind |-> "string", n |-> 0, s |-> t]

\* The lookup tables of a response without any entry.
NoData == [genomes |-> <<>>, SCC_values |-> <<>>, sequence_similarity |-> <<>>,
           efp_links |-> <<>>]

Whitespace == {" "}
Digits == {"0", "1", "2"}
DigitVal(c) == CASE c = "0" -> 0 [] c = "1" -> 1 [] c = "2" -> 2

Includes(str, c) == \E i \in 1..Len(str) : str[i] = c

\* String.prototype.trim
Trim(str) ==
    LET keep == {i \in 1..Len(str) : str[i] \notin Whitespace} IN
    IF keep = {} THEN <<>>
    ELSE SubSeq(str, CHOOSE i \in keep : \A j \in keep : i <= j,
                     CHOOSE i \in keep : \A j \in keep : i >= j)

\* replace(/;$/, ""): one ";" at the very end is removed.
StripTerminator(str) ==
    IF Len(str) > 0 /\ str[Len(str)] = ";" THEN SubSeq(str, 1, Len(str) - 1) ELSE str

UpperChar(c) == CASE c = "a" -> "A" [] c = "b" -> "B" [] OTHER -> c

\* String.prototype.toUpperCase
ToUpperCase(str) == [i \in 1..Len(str) |-> UpperChar(str[i])]

Colons(str) == {i \in 1..Len(str) : str[i] = ":"}

\* const [name, lengthStr] = str.split(":"): the text before the first ":" and
\* the text between the first and the second ":" (undefined without a ":").
SplitName(str) ==
    IF Colons(str) = {} THEN str
    ELSE SubSeq(str, 1, (CHOOSE i \in Colons(str) : \A j \in Colons(str) : i <= j) - 1)

SplitLength(str) ==
    IF Colons(str) = {} THEN Undefined
    ELSE LET c1 == CHOOSE i \in Colons(str) : \A j \in Colons(str) : i <= j
             later == {i \in Colons(str) : i > c1}
             c2 == IF later = {} THEN Len(str) + 1
                   ELSE CHOOSE i \in later : \A j \in later : i <= j
         IN Str(SubSeq(str, c1 + 1, c2 - 1))

RECURSIVE DigitsValue(_, _)
\* The value of the longest run of digits at the head of str, after acc.
DigitsValue(str, acc) ==
    IF Len(str) = 0 \/ str[1] \notin Digits THEN acc
    ELSE DigitsValue(Tail(str), 10 * acc + DigitVal(str[1]))

RECURSIVE TrimStart(_)
TrimStart(str) ==
    IF Len(str) > 0 /\ str[1] \in Whitespace THEN TrimStart(Tail(str)) ELSE str

\* parseFloat on the alphabet of the model (no "." and no exponent): leading
\* white space is skipped, a sign is optional, the longest prefix of digits is
\* the value and what follows it is ignored; NaN without a digit.
ParseFloat(str) ==
    LET t == TrimStart(str)
        signed == Len(t) > 0 /\ t[1] \in {"-", "+"}
        negative == Len(t) > 0 /\ t[1] = "-"
        body == IF signed THEN Tail(t) ELSE t
    IN IF Len(body) = 0 \/ body[1] \notin Digits THEN NaN
       ELSE Num((IF negative THEN -1 ELSE 1) * DigitsValue(body, 0))

\* lengthStr ? parseFloat(lengthStr) : undefined
BranchLength(lengthStr) ==
    IF lengthStr.kind = "undefined" \/ lengthStr.s = <<>> THEN Undefined
    ELSE ParseFloat(lengthStr.s)

\* A variant that reads a missing entry as 0.
LookupOrZero(table, key) == IF key \in DOMAIN table THEN table[key] ELSE Num(0)

\* table[key] of a lookup table of the response
Lookup(table, key) == IF key \in DOMAIN table THEN table[key] ELSE Undefined

InvalidNewick == [kind |-> "error", message |-> "Invalid Newick format"]
InternalName == <<"i", "n", "t", "e", "r", "n", "a", "l">>

\* The leaf branch of parseNode (gene and organism are the primaryGene and
\* species arguments of newickToD3).
ParseLeaf(str, metadata, gene, organism) ==
    LET cleanName == Trim(SplitName(str))
        upperName == ToUpperCase(cleanName)
        isPrimaryGene == upperName = ToUpperCase(gene)
    IN [kind |-> "leaf",
        name |-> cleanName,
        value |-> BranchLength(SplitLength(str)),
        metadata |-> [genome |-> IF isPrimaryGene THEN Str(organism)
                                 ELSE Lookup(metadata.genomes, upperName),
                      scc_value |-> Lookup(metadata.SCC_values, upperName),
                      sequence_similarity |-> Lookup(metadata.sequence_similarity, upperName),
                      efp_link |-> Lookup(metadata.efp_links, upperName)]]

RECURSIVE SplitChildren(_, _, _, _, _)
\* The loop over childrenStr: the buffers cut at the commas met while
\* parenthesesCount is 0, the last one being the buffer left at the end.
SplitChildren(str, i, buffer, parenthesesCount, pieces) ==
    IF i > Len(str) THEN Append(pieces, buffer)
    ELSE LET char == str[i]
             count == IF char = "(" THEN parenthesesCount + 1
                      ELSE IF char = ")" THEN parenthesesCount - 1
                      ELSE parenthesesCount
         IN IF char = "," /\ count = 0
              THEN SplitChildren(str, i + 1, <<>>, count, Append(pieces, buffer))
              ELSE SplitChildren(str, i + 1, Append(buffer, char), count, pieces)

\* The strings parseNode is called with for the children: every buffer cut at
\* a comma, trimmed, and the last buffer when it is not blank.
ChildStrings(childrenStr) ==
    LET pieces == SplitChildren(childrenStr, 1, <<>>, 0, <<>>)
        n == Len(pieces)
        m == IF Trim(pieces[n]) = <<>> THEN n - 1 ELSE n
    IN [k \in 1..m |-> Trim(pieces[k])]

\* str.match(/\((.*)\)(.*)/): the first "(" and the last ")" after it.
OpenAt(str) == CHOOSE i \in 1..Len(str) : str[i] = "(" /\ \A j \in 1..(i - 1) : str[j] # "("

\* A variant that takes the end of the text for a missing ")".
CloseAtLenient(str) ==
    LET closes == {i \in 1..Len(str) : str[i] = ")" /\ i > OpenAt(str)} IN
    IF closes = {} THEN Len(str) + 1 ELSE CHOOSE i \in closes : \A j \in closes : i >= j

CloseAt(str) ==
    LET closes == {i \in 1..Len(str) : str[i] = ")" /\ i > OpenAt(str)} IN
    IF closes = {} THEN 0 ELSE CHOOSE i \in closes : \A j \in closes : i >= j

RECURSIVE ParseNode(_, _, _, _)
ParseNode(str, metadata, gene, organism) ==
    IF ~Includes(str, "(") THEN ParseLeaf(str, metadata, gene, organism)
    ELSE IF CloseAt(str) = 0 THEN InvalidNewick
    ELSE LET childrenStr == SubSeq(str, OpenAt(str) + 1, CloseAt(str) - 1)
             remainingStr == SubSeq(str, CloseAt(str) + 1, Len(str))
             strs == ChildStrings(childrenStr)
             children == [k \in 1..Len(strs) |->
                             ParseNode(strs[k], metadata, gene, organism)]
             name == SplitName(remainingStr)
         IN IF \E k \in 1..Len(children) : children[k].kind = "error"
              THEN InvalidNewick
              ELSE [kind |-> "clade",
                    name |-> IF name = <<>> THEN InternalName ELSE name,
                    value |-> BranchLength(SplitLength(remainingStr)),
                    children |-> children]

NewickToD3(newickString, metadata, gene, organism) ==
    ParseNode(StripTerminator(Trim(newickString)), metadata, gene, organism)


NotParsed == [kind |-> "none"]

ZoomIdle ==
    /\ dimensions = [width |-> 0, height |-> 0, boundsWidth |-> 0, boundsHeight |-> 0]
    /\ zoomT = Identity
    /\ gT = IdentityG
    /\ transition = NoTransition
    /\ dragging = FALSE
    /\ resets = 0
    /\ lastEvent = "init"

Null == [kind |-> "null"]
NoUrl == [primaryGene |-> <<>>, species |-> <<>>]

ViewIdle ==
    /\ apiUrl = NoUrl
    /\ primaryGene = <<>>
    /\ species = <<>>
    /\ treeData = Null
    /\ error = ""
    /\ pending = {}
    /\ treeUrl = NoUrl

ParseIdle ==
    /\ args = [newickString |-> <<>>, metadata |-> NoData, primaryGene |-> <<>>,
               species |-> <<>>]
    /\ result = NotParsed

ZeroDimensions == [width |-> 0, height |-> 0, boundsWidth |-> 0, boundsHeight |-> 0]

LayoutIdle ==
    /\ layoutView = "none"
    /\ layoutTree = <<>>
    /\ layoutDims = ZeroDimensions
    /\ hierarchy = Null
    /\ dendrogram = Null
    /\ runs = 0

PollIdle ==
    /\ available = FALSE
    /\ mounted = FALSE
    /\ newick = 0
    /\ chains = <<>>
    /\ container = <<>>

GeneIdle ==
    /\ geneticElements = <<>>
    /\ closure = <<>>
    /\ dirty = FALSE
    /\ effectDue = FALSE
    /\ lastAdd = <<>>
    /\ activeGene = ""

ScaleIdle ==
    /\ scaleText = <<>>
    /\ scaleW = 0
    /\ scaleNodes = Null
    /\ rootDist = <<>>

OthersIdle == PollIdle /\ GeneIdle /\ ScaleIdle

InitZoom == ZoomIdle /\ ParseIdle /\ ViewIdle /\ LayoutIdle /\ OthersIdle

(***************************************************************************)
(* A resize event (and the first run of the dimensions effect):            *)
(* updateDimensions, the re-render, and the zoom effect, whose             *)
(* dependency is the dimensions object that setDimensions replaces.  The   *)
(* effect installs a new zoom behaviour and sets its transform to          *)
(* zoomIdentity.translate(MARGIN.left, MARGIN.top), which dispatches a     *)
(* zoom event.  When the svg is not rendered the effect returns early      *)
(* and a later svg is a new element.                                       *)
(***************************************************************************)
Resize(w) ==
    LET d == UpdateDimensions(w) IN
    /\ dimensions' = d
    /\ IF Mounted(d)
         THEN /\ zoomT' = ResetTransform
              /\ gT' = OnZoom(ResetTransform, d)
         ELSE /\ zoomT' = Identity
              /\ gT' = IdentityG
    /\ transition' = NoTransition
    /\ dragging' = FALSE
    /\ lastEvent' = "resize"
    /\ UNCHANGED <<resets, parseVars, viewVars, layoutVars,
                 pollVars, geneVars, scaleVars>>

\* mousedown on the svg: the gesture starts, no zoom event yet.
MouseDown ==
    /\ Mounted(dimensions)
    /\ ~dragging
    /\ dragging' = TRUE
    /\ transition' = Interrupt(transition)
    /\ lastEvent' = "mousedown"
    /\ UNCHANGED <<dimensions, zoomT, gT, resets, parseVars, viewVars, layoutVars,
                 pollVars, geneVars, scaleVars>>

\* mousemove while dragging: the transform is translated by the movement.
MouseMove(dx, dy) ==
    LET t == [zoomT EXCEPT !.x = zoomT.x + dx, !.y = zoomT.y + dy] IN
    /\ Mounted(dimensions)
    /\ dragging
    /\ InRange(t)
    /\ zoomT' = t
    /\ gT' = OnZoom(t, dimensions)
    /\ lastEvent' = "mousemove"
    /\ UNCHANGED <<dimensions, transition, dragging, resets, parseVars, viewVars, layoutVars,
                 pollVars, geneVars, scaleVars>>

MouseUp ==
    /\ dragging
    /\ dragging' = FALSE
    /\ lastEvent' = "mouseup"
    /\ UNCHANGED <<dimensions, zoomT, gT, transition, resets, parseVars, viewVars, layoutVars,
                 pollVars, geneVars, scaleVars>>

(***************************************************************************)
(* A wheel event with the pointer at (p, p): the scale changes to          *)
(* newK2 / 2, inside the scale extent, and the point under the pointer     *)
(* stays where it is: x' = p - (p - x) * k' / k.  Only the pointer         *)
(* positions for which x' and y' are whole multiples of PanStep are        *)
(* modelled.                                                               *)
(***************************************************************************)
Wheel(newK2, p) ==
    LET t == [k2 |-> newK2,
              x |-> p - ((p - zoomT.x) * newK2) \div zoomT.k2,
              y |-> p - ((p - zoomT.y) * newK2) \div zoomT.k2] IN
    /\ Mounted(dimensions)
    /\ ~dragging
    /\ newK2 # zoomT.k2
    /\ ((p - zoomT.x) * newK2) % zoomT.k2 = 0
    /\ ((p - zoomT.y) * newK2) % zoomT.k2 = 0
    /\ InRange(t)
    /\ t.x % PanStep = 0
    /\ t.y % PanStep = 0
    /\ zoomT' = t
    /\ gT' = OnZoom(t, dimensions)
    /\ transition' = Interrupt(transition)
    /\ lastEvent' = "wheel"
    /\ UNCHANGED <<dimensions, dragging, resets, parseVars, viewVars, layoutVars,
                 pollVars, geneVars, scaleVars>>

\* The dblclick.zoom listener: svg.transition().duration(750)
\*   .call(zoom.transform, zoomIdentity.translate(MARGIN.left, MARGIN.top)).
DblClick ==
    /\ Mounted(dimensions)
    /\ ~dragging
    /\ resets < MaxResets
    /\ resets' = resets + 1
    /\ transition' = [active |-> TRUE, from |-> zoomT, step |-> 0]
    /\ lastEvent' = "dblclick"
    /\ UNCHANGED <<dimensions, zoomT, gT, dragging, parseVars, viewVars, layoutVars,
                 pollVars, geneVars, scaleVars>>

\* The value of the tween at frame s of TransitionSteps (the last frame is
\* the target itself).
Lerp(a, b, s) == a + ((b - a) * s) \div TransitionSteps

Interpolate(from, to, s) ==
    [k2 |-> Lerp(from.k2, to.k2, s),
     x |-> Lerp(from.x, to.x, s),
     y |-> Lerp(from.y, to.y, s)]

\* One animation frame of the reset in flight.
Tick ==
    LET s == transition.step + 1
        t == Interpolate(transition.from, ResetTransform, s) IN
    /\ transition.active
    /\ zoomT' = t
    /\ gT' = OnZoom(t, dimensions)
    /\ transition' = IF s < TransitionSteps
                        THEN [transition EXCEPT !.step = s]
                        ELSE NoTransition
    /\ lastEvent' = "tick"
    /\ UNCHANGED <<dimensions, dragging, resets, parseVars, viewVars, layoutVars,
                 pollVars, geneVars, scaleVars>>

(***************************************************************************)
(* SpecParse: newickToD3 as a function of its arguments.  The input is     *)
(* every string over Alphabet of at most MaxLen characters, and the        *)
(* longer sample strings.                                                  *)
(***************************************************************************)
Alphabet == {"(", ")", ",", ":", "A", "b", "1", "-"}

UnbalancedAB == <<"(", "A", ",", "B">>                          \* (A,B
EmptyCladeNested == <<"(", "A", ",", "(", ")", ")", ";">>       \* (A,());
ScenarioA == <<"(", "A", ":", "1", ",", "B", ":", "2", ")", ";">>   \* (A:1,B:2);
ScenarioB == <<"(", "A", ",", "(", "B", ",", "C", ")", ")", ";">>   \* (A,(B,C));
BadLength == <<"A", ":", "a", "b", "c">>                        \* A:abc
NegativeLength == <<"(", "A", ":", "-", "1", ",", "B", ":", "2", ")", ";">>  \* (A:-1,B:2);
Spaced == <<" ", "(", "A", ",", " ", "b", " ", ")", " ", ";", " ">>

BlankLastChild == <<"(", "A", ",", " ", ")">>                   \* (A, )
BlankMiddleChild == <<"(", "A", ",", " ", ",", "b", ")">>      \* (A, ,b)
Ternary == <<"(", "(", "A", ",", "B", ")", ",", "C", ",", "D", ")", ";">>   \* ((A,B),C,D);

\* NEWICK_STRING, with the names of its ten leaves shortened to A .. J and
\* without its branch lengths (the layout of the static view reads neither).
NEWICK_STRING ==
    <<"(", "(", "A", ",", "(", "(", "B", ",", "C", ")", ",", "(", "D", ",", "(", "E",
      ",", "F", ")", ")", ")", ")", ",", "(", "(", "G", ",", "H", ")", ",", "(", "I",
      ",", "J", ")", ")", ")", ";">>

Samples == {UnbalancedAB, EmptyCladeNested, ScenarioA, ScenarioB, BadLength,
            NegativeLength, Spaced, BlankLastChild, BlankMiddleChild, Ternary,
            NEWICK_STRING}

Strings == UNION {[1..n -> Alphabet] : n \in 0..MaxLen}

\* Lookup tables with an entry for A and none for B.
DataForA == [genomes |-> (<<"A">> :> Str(<<"g">>)),
             SCC_values |-> (<<"A">> :> Num(1)),
             sequence_similarity |-> (<<"A">> :> Num(1)),
             efp_links |-> (<<"A">> :> Str(<<"u">>))]

InitParse ==
    /\ ZoomIdle
    /\ OthersIdle
    /\ ViewIdle
    /\ LayoutIdle
    /\ args \in [newickString : Strings \cup Samples,
                 metadata : {NoData, DataForA},
                 primaryGene : {<<"b">>},
                 species : {<<"s">>}]
    /\ result = NotParsed

\* One call of newickToD3; a thrown Error is the result of kind "error".
Parse ==
    /\ result = NotParsed
    /\ result' = NewickToD3(args.newickString, args.metadata, args.primaryGene,
                            args.species)
    /\ UNCHANGED <<args, zoomVars, viewVars, layoutVars,
                 pollVars, geneVars, scaleVars>>

NextParse == Parse

SpecParse == InitParse /\ [][NextParse]_vars

Returned == result.kind \in {"leaf", "clade"}

RECURSIVE AllNodes(_)
\* The nodes of a parsed tree, the root included.
AllNodes(node) ==
    IF node.kind = "clade"
      THEN {node} \cup UNION {AllNodes(node.children[k]) : k \in 1..Len(node.children)}
      ELSE {node}

(***************************************************************************)
(* Spec: the Dendrogram that fetches its tree (placeholder.tsx).           *)
(* A URL is held as the values of its primaryGene and species parameters   *)
(* (the empty string when the parameter is missing).                       *)
(***************************************************************************)
MARGIN == [top |-> 50, right |-> 400, bottom |-> 50, left |-> 50]
MIN_NODE_SPACING == 30
DEFAULT_WIDTH == 1200
DEFAULT_HEIGHT == 600
BAR_WIDTH == 100

\* useState dimensions; setDimensions is never called.
Dimensions == [width |-> DEFAULT_WIDTH,
               height |-> DEFAULT_HEIGHT,
               boundsWidth |-> DEFAULT_WIDTH - MARGIN.left - MARGIN.right,
               boundsHeight |-> DEFAULT_HEIGHT - MARGIN.top - MARGIN.bottom]

ExtractPrimaryGene(url) == url.primaryGene
ExtractSpecies(url) == url.species

Urls == {[primaryGene |-> <<"a">>, species |-> <<"s">>],
         [primaryGene |-> <<"A">>, species |-> <<"t">>]}

Keys == {<<"A">>, <<"B">>}

\* The functions from a subset of the keys to the values.
Tables(values) == UNION {[K -> values] : K \in SUBSET Keys}

Trees == {ScenarioA, ScenarioB, UnbalancedAB, EmptyCladeNested, NegativeLength,
          <<"A">>, <<"(", "a", ",", "B", ")">>}

\* The bodies of the responses with status "success".
Responses ==
    [kind : {"data"},
     tree : Trees,
     genomes : {<<>>, [k \in Keys |-> Str(<<"g">>)]},
     SCC_values : Tables({Num(-1), Num(0), Num(2)}),
     sequence_similarity : {<<>>, [k \in Keys |-> Num(0)], [k \in Keys |-> Num(1)]},
     efp_links : {<<>>}]

FetchErrors == {"Network response was not ok", "Failed to load tree data"}

\* The render that follows the mount, its effects included: the fetch of the
\* URL of the context is in flight.
Init ==
    /\ ZoomIdle
    /\ OthersIdle
    /\ ParseIdle
    /\ LayoutIdle
    /\ apiUrl \in Urls
    /\ primaryGene = ExtractPrimaryGene(apiUrl)
    /\ species = ExtractSpecies(apiUrl)
    /\ treeData = Null
    /\ error = ""
    /\ pending = {apiUrl}
    /\ treeUrl = NoUrl

\* The context delivers another apiUrl: the cleanup of the fetch effect
\* (setTreeData(null), setError(null)), then both effects.  The earlier
\* fetches stay in flight.
ApiUrlChange(url) ==
    /\ url # apiUrl
    /\ apiUrl' = url
    /\ primaryGene' = ExtractPrimaryGene(url)
    /\ species' = ExtractSpecies(url)
    /\ treeData' = Null
    /\ error' = ""
    /\ pending' = pending \cup {url}
    /\ treeUrl' = NoUrl
    /\ UNCHANGED <<zoomVars, parseVars, layoutVars,
                 pollVars, geneVars, scaleVars>>

\* A fetch resolves with status "success".
FetchSuccess(url, data) ==
    /\ url \in pending
    /\ pending' = pending \ {url}
    /\ treeData' = data
    /\ treeUrl' = url
    /\ error' = ""
    /\ UNCHANGED <<apiUrl, primaryGene, species, zoomVars, parseVars, layoutVars,
                 pollVars, geneVars, scaleVars>>

\* A fetch rejects, answers with an HTTP error or with another status.
FetchFailure(url, message) ==
    /\ url \in pending
    /\ pending' = pending \ {url}
    /\ error' = message
    /\ UNCHANGED <<apiUrl, primaryGene, species, treeData, treeUrl, zoomVars, parseVars,
                   layoutVars,
                 pollVars, geneVars, scaleVars>>

Next ==
    \/ \E url \in Urls : ApiUrlChange(url)
    \/ \E url \in Urls, data \in Responses : FetchSuccess(url, data)
    \/ \E url \in Urls, message \in FetchErrors : FetchFailure(url, message)

Spec == Init /\ [][Next]_vars

\* useMemo hierarchy: null without data and when newickToD3 throws (the catch
\* logs the error and returns null).  The nodes are those of the parsed
\* data; the order that hierarchy.sort gives the siblings is not held here.
HierarchyOf(data, gene, organism) ==
    IF data = Null THEN Null
    ELSE LET d3Data == NewickToD3(data.tree, data, gene, organism)
         IN IF d3Data.kind = "error" THEN Null ELSE d3Data

Hierarchy == HierarchyOf(treeData, primaryGene, species)

\* useMemo dendrogram: null when a bound is 0 or without a hierarchy.
DendrogramNull ==
    Dimensions.boundsHeight = 0 \/ Dimensions.boundsWidth = 0 \/ Hierarchy = Null

\* What the component returns: the error message, the "Loading..." block or
\* the svg with the tree.
ViewShown ==
    IF error # "" THEN "error"
    ELSE IF treeData = Null \/ Hierarchy = Null \/ Dimensions.width = 0 \/ DendrogramNull
      THEN "loading"
    ELSE "tree"

\* The leaves of the tree that is rendered.
Leaves(node) == {n \in AllNodes(node) : n.kind = "leaf"}

\* allNodes: isPrimaryGene of a rendered node.
IsPrimaryGene(node) == ToUpperCase(node.name) = ToUpperCase(primaryGene)

\* value || 0
OrZero(v) == IF v.kind = "number" THEN v.n ELSE 0

\* MetadataVisualizations: the two levels, Math.min(isPrimaryGene ? 1 : (v || 0), 1).
SequenceSimilarity(metadata, isPrimaryGene) ==
    Min(IF isPrimaryGene THEN 1 ELSE OrZero(metadata.sequence_similarity), 1)

ExpressionLevel(metadata, isPrimaryGene) ==
    Min(IF isPrimaryGene THEN 1 ELSE OrZero(metadata.scc_value), 1)

\* The width of the black bar of the expression level.
ExpressionBarWidth(metadata, isPrimaryGene) ==
    (BAR_WIDTH \div 2) * ExpressionLevel(metadata, isPrimaryGene)

\* d3.phylogram.build, negSccBars: the width of the bar of the leaf called
\* name; a comparison with undefined is false.
NegSccBarWidth(sccValues, name, query) ==
    LET v == Lookup(sccValues, name) IN
    IF v.kind = "number" /\ v.n < 0 THEN (-v.n) * 25
    ELSE IF v.kind = "number" /\ v.n > 0 THEN v.n * 25
    ELSE IF name = query THEN 27
    ELSE 0

\* negSccBars: the x attribute of the bar (429 is the right of the divider,
\* the side of the positive correlations).
NegSccBarX(sccValues, name, query) ==
    LET v == Lookup(sccValues, name) IN
    IF v.kind = "number" /\ v.n < 0 THEN 428 - (-v.n) * 25
    ELSE IF v.kind = "number" /\ v.n > 0 THEN 429
    ELSE IF name = query THEN 429
    ELSE 0

\* seqBars: the width of the black bar, doubled (seqValues[d.name] / 2 for a
\* leaf that is not the query, NaN without an entry; 50 for the query).
SeqBarWidth2(seqValues, name, query) ==
    LET v == Lookup(seqValues, name) IN
    IF name # query THEN (IF v.kind = "number" THEN Num(v.n) ELSE NaN)
    ELSE Num(2 * 50)

\* allNodes of the variant of the view that compares the names as they are.
IsPrimaryGeneExact(node) == node.name = primaryGene

(***************************************************************************)
(* The layout of the hierarchy.  A coordinate is a fraction <<n, d>> in     *)
(* lowest terms with d > 0 (the layout divides by the number of children   *)
(* and by the number of leaves); a coordinate that was never assigned is   *)
(* NoCoord.                                                                *)
(***************************************************************************)
NoCoord == <<>>

RECURSIVE Gcd(_, _)
Gcd(a, b) == IF b = 0 THEN a ELSE Gcd(b, a % b)

Abs(a) == IF a < 0 THEN -a ELSE a

Frac(n, d) ==
    LET g == Gcd(Abs(n), Abs(d))
        sign == IF d < 0 THEN -1 ELSE 1
    IN <<(sign * n) \div g, (sign * d) \div g>>

Whole(n) == <<n, 1>>
FAdd(a, b) == Frac(a[1] * b[2] + b[1] * a[2], a[2] * b[2])
FSub(a, b) == Frac(a[1] * b[2] - b[1] * a[2], a[2] * b[2])
FMul(a, b) == Frac(a[1] * b[1], a[2] * b[2])
FDiv(a, b) == Frac(a[1] * b[2], a[2] * b[1])
FLess(a, b) == a[1] * b[2] < b[1] * a[2]
FLeq(a, b) == a[1] * b[2] <= b[1] * a[2]
FAbs(a) == <<Abs(a[1]), a[2]>>

\* Math.max over a non-empty set of coordinates
FMax(S) == CHOOSE a \in S : \A b \in S : FLeq(b, a)

(***************************************************************************)
(* String.prototype.localeCompare on the characters of the model: white    *)
(* space and punctuation come before the digits, the digits before the     *)
(* letters; the names are compared character by character without regard   *)
(* to case, and names that differ in case only are ordered by the first    *)
(* such letter, the lower-case letter first.                               *)
(***************************************************************************)
CollationOrder == <<" ", "-", ",", ";", ":", "(", ")", "0", "1", "2",
                    "a", "b", "c", "d", "e", "f", "g", "h", "i", "j", "l", "n", "r", "t">>
UpperLetters == <<" ", "-", ",", ";", ":", "(", ")", "0", "1", "2",
                  "A", "B", "C", "D", "E", "F", "G", "H", "I", "J", "L", "N", "R", "T">>

\* The primary weight of a character, and whether it is an upper-case letter.
Weight(c) == CHOOSE i \in 1..Len(CollationOrder) :
                 CollationOrder[i] = c \/ UpperLetters[i] = c
IsUpper(c) == \E i \in 1..Len(UpperLetters) : UpperLetters[i] = c /\ CollationOrder[i] # c

RECURSIVE LexLess(_, _)
\* a before b, comparing the sequences of numbers a and b from the left
LexLess(a, b) ==
    IF Len(b) = 0 THEN FALSE
    ELSE IF Len(a) = 0 THEN TRUE
    ELSE IF a[1] # b[1] THEN a[1] < b[1]
    ELSE LexLess(Tail(a), Tail(b))

\* a.localeCompare(b) < 0
LocaleLess(a, b) ==
    LET pa == [i \in 1..Len(a) |-> Weight(a[i])]
        pb == [i \in 1..Len(b) |-> Weight(b[i])]
        ta == [i \in 1..Len(a) |-> IF IsUpper(a[i]) THEN 1 ELSE 0]
        tb == [i \in 1..Len(b) |-> IF IsUpper(b[i]) THEN 1 ELSE 0]
    IN IF pa # pb THEN LexLess(pa, pb) ELSE LexLess(ta, tb)

(***************************************************************************)
(* d3.hierarchy.  A node of the data has children in the hierarchy when    *)
(* its children array is not empty; a clade without children is a leaf.    *)
(***************************************************************************)
HasChildren(node) == node.kind = "clade" /\ Len(node.children) > 0

RECURSIVE FirstLeafName(_)
\* node.leaves()[0]?.data.name || ''
FirstLeafName(node) ==
    IF HasChildren(node) THEN FirstLeafName(node.children[1]) ELSE node.name

\* children.sort((a, b) => bName.localeCompare(aName)): descending by the
\* name of the first leaf; the sort is stable.
SortChildren(children) ==
    LET n == Len(children)
        key == [i \in 1..n |-> FirstLeafName(children[i])] @@ <<>>
        pos == [i \in 1..n |->
                   1 + Cardinality({j \in 1..n : LocaleLess(key[i], key[j])})
                     + Cardinality({j \in 1..(i - 1) : key[j] = key[i]})] @@ <<>>
    IN SubSeq([q \in 1..n |-> children[CHOOSE i \in 1..n : pos[i] = q]], 1, n)

RECURSIVE Sort(_)
\* hierarchyData.sort(compare): eachBefore, so the children of a node are
\* sorted before the children of its children are.
Sort(node) ==
    IF HasChildren(node)
      THEN LET sorted == SortChildren(node.children)
               n == Len(sorted)
           IN [node EXCEPT !.children = SubSeq([k \in 1..n |-> Sort(sorted[k])], 1, n)]
      ELSE node

\* root.sort((a, b) => (b.children?.length || 0) - (a.children?.length || 0))
\* of the phylogram: descending by the number of children, stable.
SortChildrenByCount(children) ==
    LET n == Len(children)
        key == [i \in 1..n |-> IF HasChildren(children[i])
                                 THEN Len(children[i].children) ELSE 0] @@ <<>>
        pos == [i \in 1..n |->
                   1 + Cardinality({j \in 1..n : key[j] > key[i]})
                     + Cardinality({j \in 1..(i - 1) : key[j] = key[i]})] @@ <<>>
    IN SubSeq([q \in 1..n |-> children[CHOOSE i \in 1..n : pos[i] = q]], 1, n)

RECURSIVE SortedTree(_)
SortedTree(node) ==
    IF HasChildren(node)
      THEN LET sorted == SortChildrenByCount(node.children)
               n == Len(sorted)
           IN [node EXCEPT !.children = SubSeq([k \in 1..n |-> SortedTree(sorted[k])], 1, n)]
      ELSE node

RECURSIVE Paths(_)
\* The nodes of the hierarchy, each named by the child indices that lead to
\* it from the root.
Paths(node) ==
    IF HasChildren(node)
      THEN {<<>>} \cup UNION {{<<k>> \o q : q \in Paths(node.children[k])} :
                                 k \in 1..Len(node.children)}
      ELSE {<<>>}

RECURSIVE NodeAt(_, _)
NodeAt(node, path) ==
    IF path = <<>> THEN node ELSE NodeAt(node.children[Head(path)], Tail(path))

RECURSIVE HeightOf(_)
RECURSIVE MaxHeightFrom(_, _)
\* node.height: the greatest distance to a leaf below
HeightOf(node) == IF HasChildren(node) THEN 1 + MaxHeightFrom(node, 1) ELSE 0

MaxHeightFrom(node, k) ==
    IF k = Len(node.children) THEN HeightOf(node.children[k])
    ELSE Max(HeightOf(node.children[k]), MaxHeightFrom(node, k + 1))

\* d3.hierarchy(data): the nodes with depth and height, without coordinates
\* (held as an explicit function: f @@ <<>> is f).
D3Hierarchy(data) ==
    [p \in Paths(data) |->
        LET node == NodeAt(data, p) IN
        [name |-> node.name,
         nchildren |-> IF HasChildren(node) THEN Len(node.children) ELSE 0,
         depth |-> Len(p),
         height |-> HeightOf(node),
         length |-> node.value,
         x |-> NoCoord, y |-> NoCoord, parentY |-> NoCoord]] @@ <<>>

Parent(p) == SubSeq(p, 1, Len(p) - 1)
Children(h, p) == [k \in 1..h[p].nchildren |-> Append(p, k)]
IsLeaf(h, p) == h[p].nchildren = 0

(***************************************************************************)
(* d3.cluster.  gen is the configured generator: dx and dy are its size,   *)
(* gen.separation is "default" for the separation of d3 (1 between the     *)
(* children of one parent, 2 otherwise) and "one" for () => 1.             *)
(***************************************************************************)
Separation(gen, a, b) ==
    IF gen.separation = "one" THEN 1
    ELSE IF Parent(a) = Parent(b) THEN 1 ELSE 2

RECURSIVE LeafSeq(_, _)
RECURSIVE LeafSeqFrom(_, _, _)
\* The leaves below p, from the first child to the last.
LeafSeq(h, p) == IF IsLeaf(h, p) THEN <<p>> ELSE LeafSeqFrom(h, p, 1)

LeafSeqFrom(h, p, k) ==
    IF k > h[p].nchildren THEN <<>>
    ELSE LeafSeq(h, Append(p, k)) \o LeafSeqFrom(h, p, k + 1)

IndexOf(seq, e) == CHOOSE i \in 1..Len(seq) : seq[i] = e

RECURSIVE LeafX(_, _, _)
\* The first walk at the leaves: 0 for the first one, then the running sum
\* of the separations.
LeafX(gen, leaves, i) ==
    IF i = 1 THEN 0
    ELSE LeafX(gen, leaves, i - 1) + Separation(gen, leaves[i], leaves[i - 1])

RECURSIVE SumX(_, _, _, _)
RECURSIVE FirstX(_, _, _)
\* A variant that puts a node with children half way between its first and
\* its last child.
MidpointX(h, gen, p) ==
    IF IsLeaf(h, p)
      THEN LET leaves == LeafSeq(h, <<>>) IN Whole(LeafX(gen, leaves, IndexOf(leaves, p)))
      ELSE FDiv(FAdd(FirstX(h, gen, Append(p, 1)), FirstX(h, gen, Append(p, h[p].nchildren))),
                Whole(2))

\* The first walk: meanX of the children for a node with children.
FirstX(h, gen, p) ==
    IF IsLeaf(h, p)
      THEN LET leaves == LeafSeq(h, <<>>) IN Whole(LeafX(gen, leaves, IndexOf(leaves, p)))
      ELSE FDiv(SumX(h, gen, p, 1), Whole(h[p].nchildren))

SumX(h, gen, p, k) ==
    IF k > h[p].nchildren THEN Whole(0)
    ELSE FAdd(FirstX(h, gen, Append(p, k)), SumX(h, gen, p, k + 1))

RECURSIVE FirstY(_, _)
\* The first walk: 0 for a leaf, maxY of the children (1 + the greatest y)
\* for a node with children.
FirstY(h, p) ==
    IF IsLeaf(h, p) THEN 0
    ELSE 1 + (CHOOSE m \in {FirstY(h, Append(p, k)) : k \in 1..h[p].nchildren} :
                 \A k \in 1..h[p].nchildren : FirstY(h, Append(p, k)) <= m)

\* An assignment that adds to the coordinate the node holds.
Accumulate(old, new) == IF old = NoCoord THEN new ELSE FAdd(old, new)

\* node.x = ..., node.y = ...: what the node held before is overwritten.
Assign(old, new) == new

\* The layout function that d3.cluster() returns, applied to the root: the
\* second walk scales x into [0, dx] and y into [0, dy], the root at y 0.
Cluster(h, gen) ==
    LET leaves == LeafSeq(h, <<>>)
        left == leaves[1]
        right == leaves[Len(leaves)]
        x0 == FSub(FirstX(h, gen, left), Frac(Separation(gen, left, right), 2))
        x1 == FAdd(FirstX(h, gen, right), Frac(Separation(gen, right, left), 2))
        rootY == FirstY(h, <<>>)
        x(p) == FMul(FDiv(FSub(FirstX(h, gen, p), x0), FSub(x1, x0)), gen.dx)
        y(p) == FMul(FSub(Whole(1), IF rootY # 0 THEN Frac(FirstY(h, p), rootY)
                                               ELSE Whole(1)),
                     gen.dy)
    IN [p \in DOMAIN h |->
           [h[p] EXCEPT !.x = Assign(h[p].x, x(p)), !.y = Assign(h[p].y, y(p))]]

\* A variant without the branch for the nodes that have no children.
AlignByDepth(h) ==
    LET maxX == FMax({h[p].y : p \in DOMAIN h})
        y(p) == FMul(maxX, Frac(h[p].depth, h[<<>>].height))
    IN [p \in DOMAIN h |->
           [h[p] EXCEPT !.y = Assign(h[p].y, y(p)),
                        !.parentY = IF p = <<>> THEN h[p].parentY
                                    ELSE Assign(h[p].parentY, y(Parent(p)))]]

\* A variant that gives every child the y its parent had before the loop.
AlignLeavesStaleParentY(h) ==
    LET maxX == FMax({h[p].y : p \in DOMAIN h})
        y(p) == IF IsLeaf(h, p) THEN maxX
                ELSE FMul(maxX, Frac(h[p].depth, h[<<>>].height))
    IN [p \in DOMAIN h |->
           [h[p] EXCEPT !.y = Assign(h[p].y, y(p)),
                        !.parentY = IF p = <<>> THEN h[p].parentY
                                    ELSE Assign(h[p].parentY, h[Parent(p)].y)]]

\* The forEach over descendants() of the fetching view: the leaves are put
\* at maxX, a node with children at maxX * depth / height of the tree, and
\* every child is given the y of its parent as parentY.
AlignLeaves(h) ==
    LET maxX == FMax({h[p].y : p \in DOMAIN h})
        y(p) == IF IsLeaf(h, p) THEN maxX
                ELSE FMul(maxX, Frac(h[p].depth, h[<<>>].height))
    IN [p \in DOMAIN h |->
           [h[p] EXCEPT !.y = Assign(h[p].y, y(p)),
                        !.parentY = IF p = <<>> THEN h[p].parentY
                                    ELSE Assign(h[p].parentY, y(Parent(p)))]]

\* dendrogramGenerator of the fetching view and of the static view
Generator(d) == [dx |-> FMul(Whole(d.boundsHeight), Frac(4, 5)),
                 dy |-> FMul(Whole(d.boundsWidth), Frac(2, 5)),
                 separation |-> "one"]

GeneratorA(d) == [dx |-> Whole(d.boundsHeight), dy |-> Whole(d.boundsWidth),
                  separation |-> "default"]

\* treeLayout of the phylogram: d3.cluster().size([height, width])
TreeLayout(d) == [dx |-> Whole(d.height), dy |-> Whole(d.width), separation |-> "default"]

\* node.length || 0
LengthOrZero(h, p) == IF h[p].length.kind = "number" THEN h[p].length.n ELSE 0

RECURSIVE RootDist(_, _)
\* A variant that leaves the parent out.
OwnLength(h, p) == LengthOrZero(h, p)

\* node.rootDist = (node.parent ? node.parent.rootDist : 0) + (node.length || 0)
RootDist(h, p) ==
    (IF p = <<>> THEN 0 ELSE RootDist(h, Parent(p))) + LengthOrZero(h, p)

\* d3.max(rootDists)
MaxRootDist(h) ==
    CHOOSE m \in {RootDist(h, p) : p \in DOMAIN h} :
        \A p \in DOMAIN h : RootDist(h, p) <= m

\* d3.scale.linear().domain([0, max]).range([0, w]) applied to x: the
\* interpolation of the range at (x - 0) / b, where b = (max - 0) || 1 / max
\* is Infinity for the domain [0, 0], so that every x is taken to 0.
LinearScale(max, w, x) ==
    IF max = 0 THEN Whole(0) ELSE FMul(Frac(x, max), Whole(w))

\* scaleBranchLengths(nodes, w): y becomes yscale(rootDist), the scale
\* taking [0, the greatest rootDist] to [0, w].
ScaleBranchLengths(h, w) ==
    LET max == MaxRootDist(h)
    IN [p \in DOMAIN h |->
           [h[p] EXCEPT !.y = Assign(h[p].y, LinearScale(max, w, RootDist(h, p)))]] @@ <<>>

\* A variant that lays out whatever the bounds are.
NoBoundsCheck(h, d) == h = Null

\* if (!dimensions.boundsHeight || !dimensions.boundsWidth || !hierarchy) return null
NoLayout(h, d) == d.boundsHeight = 0 \/ d.boundsWidth = 0 \/ h = Null

Root == [kind |-> "root"]

\* One evaluation of the dendrogram memo: the value of the memo (null or the
\* root) and the nodes of the hierarchy, which the layout writes to.
Layout(view, h, d) ==
    IF view = "phylogram"
      THEN IF h = Null THEN [dendrogram |-> Null, hierarchy |-> h]
           ELSE [dendrogram |-> Root, hierarchy |-> Cluster(h, TreeLayout(d))]
    ELSE IF NoLayout(h, d) THEN [dendrogram |-> Null, hierarchy |-> h]
    ELSE IF view = "static"
      THEN [dendrogram |-> Root, hierarchy |-> Cluster(h, GeneratorA(d))]
    ELSE [dendrogram |-> Root, hierarchy |-> AlignLeaves(Cluster(h, Generator(d)))]

\* dendrogram.links(): a link from the parent to every node that has one.
Links(h) == {<<Parent(p), p>> : p \in DOMAIN h \ {<<>>}}

(***************************************************************************)
(* The connector paths, as the sequence of the points the path visits; a   *)
(* point is <<depth coordinate, lateral coordinate>> (the x and the y of   *)
(* the svg are the y and the x of the node).                               *)
(***************************************************************************)
\* A variant that goes to the depth of the target first.
DepthFirstPath(h, link) ==
    LET source == h[link[1]]
        target == h[link[2]]
    IN << <<source.y, source.x>>, <<target.y, source.x>>, <<target.y, target.x>> >>

\* allEdges of the fetching view: M source.y,source.x  H target.parentY
\* V target.x  H target.y
AllEdgesPath(h, link) ==
    LET source == h[link[1]]
        target == h[link[2]]
    IN << <<source.y, source.x>>, <<target.parentY, source.x>>,
          <<target.parentY, target.x>>, <<target.y, target.x>> >>

\* rightAngleDiagonal: [source, {x: target.x, y: source.y}, target], each
\* projected to [d.y, d.x].
RightAngleDiagonal(h, link) ==
    LET source == h[link[1]]
        target == h[link[2]]
    IN << <<source.y, source.x>>, <<source.y, target.x>>, <<target.y, target.x>> >>

\* rightAngledLinkGenerator of the static view: the bend is half way.
RightAngledLinkGenerator(h, link) ==
    LET source == h[link[1]]
        target == h[link[2]]
        offset == FMul(FAbs(FSub(target.y, source.y)), Frac(1, 2))
    IN << <<source.y, source.x>>, <<FAdd(source.y, offset), source.x>>,
          <<FAdd(source.y, offset), target.x>>, <<target.y, target.x>> >>

(***************************************************************************)
(* SpecLayout: the hierarchy and dendrogram memos of the two components,   *)
(* the static Dendrogram (its text is NEWICK_STRING, its dimensions        *)
(* follow the container) and the fetching Dendrogram (its text is the      *)
(* tree of the response, its dimensions are fixed).  The nodes of the      *)
(* hierarchy are objects that every evaluation of the dendrogram memo      *)
(* writes to.                                                              *)
(***************************************************************************)
LayoutAlphabet == {"(", ")", ",", "A", "B"}

LayoutTrees == UNION {[1..n -> LayoutAlphabet] : n \in 0..MaxTreeLen}
                 \cup {ScenarioA, ScenarioB, Ternary, EmptyCladeNested, NEWICK_STRING}

\* The hierarchy memo: d3.hierarchy of the parsed text, sorted in the
\* fetching view; Null when the parser throws.
HierarchyMemo(view, tree) ==
    LET d3Data == NewickToD3(tree, NoData, <<>>, <<>>) IN
    IF d3Data.kind = "error" THEN Null
    ELSE IF view = "static" THEN D3Hierarchy(d3Data)
    ELSE IF view = "phylogram" THEN D3Hierarchy(SortedTree(d3Data))
    ELSE D3Hierarchy(Sort(d3Data))

\* treeData of the fetching view before a response has arrived.
NoTree == <<"">>

\* formatTreeData of the NavigatorView: the nodes with attributes.depth, the
\* number of arcs from the root, and attributes.length (vertex.length || 1).
FormatTreeData(data) ==
    LET h == D3Hierarchy(data) IN
    [p \in DOMAIN h |->
        [h[p] EXCEPT !.length = IF h[p].length.kind = "number" /\ h[p].length.n # 0
                                 THEN h[p].length ELSE Num(1)]] @@ <<>>

\* Math.max(...formattedData.children.map(child => child.attributes?.depth || 0))
MaxDepth(h) ==
    CHOOSE m \in {h[c].depth : c \in {<<k>> : k \in 1..h[<<>>].nchildren}} :
        \A k \in 1..h[<<>>].nchildren : h[<<k>>].depth <= m

\* alignLeafNodes(formattedData, 0, maxDepth): the attributes.depth of every
\* node without children becomes maxDepth.
AlignLeafNodes(h, maxDepth) ==
    [p \in DOMAIN h |-> IF IsLeaf(h, p) THEN [h[p] EXCEPT !.depth = maxDepth] ELSE h[p]] @@ <<>>

\* options.width and options.height of the phylogram
PhylogramOptions == [width |-> 100, height |-> 100, boundsWidth |-> 100, boundsHeight |-> 100]

\* The components after the first render.  The static view has its
\* hierarchy and no dimensions yet; the fetching view has no tree yet.
InitLayout ==
    /\ ZoomIdle
    /\ OthersIdle
    /\ ParseIdle
    /\ ViewIdle
    /\ \/ /\ layoutView = "static"
          /\ layoutTree = NEWICK_STRING
          /\ layoutDims = ZeroDimensions
          /\ hierarchy = HierarchyMemo("static", NEWICK_STRING)
       \/ /\ layoutView = "fetch"
          /\ layoutTree = NoTree
          /\ layoutDims = Dimensions
          /\ hierarchy = Null
       \/ /\ layoutView = "phylogram"
          /\ layoutTree = NoTree
          /\ layoutDims = PhylogramOptions
          /\ hierarchy = Null
       \/ /\ layoutView = "navigator"
          /\ layoutTree = NoTree
          /\ layoutDims = ZeroDimensions
          /\ hierarchy = Null
    /\ dendrogram = Null
    /\ runs = 0

\* The fetching view is given the tree of a response: the render evaluates
\* the hierarchy memo and the dendrogram memo.  The phylogram is built for
\* the nodes of a tree: build lays the sorted hierarchy out.
LoadTree(tree) ==
    LET first == Layout(layoutView, HierarchyMemo(layoutView, tree), layoutDims) IN
    /\ layoutView \in {"fetch", "phylogram"}
    /\ layoutTree = NoTree
    /\ layoutTree' = tree
    /\ hierarchy' = first.hierarchy
    /\ dendrogram' = first.dendrogram
    /\ UNCHANGED <<layoutView, layoutDims, runs, zoomVars, parseVars, viewVars,
                 pollVars, geneVars, scaleVars>>

\* The effect of the NavigatorView after its first render: newickData (the
\* text of NEWICK_STRING) is parsed, formatted and aligned, and becomes
\* treeData.
FormatTree ==
    LET formattedData == FormatTreeData(NewickToD3(NEWICK_STRING, NoData, <<>>, <<>>)) IN
    /\ layoutView = "navigator"
    /\ layoutTree = NoTree
    /\ layoutTree' = NEWICK_STRING
    /\ hierarchy' = AlignLeafNodes(formattedData, MaxDepth(formattedData))
    /\ UNCHANGED <<layoutView, layoutDims, dendrogram, runs, zoomVars, parseVars, viewVars,
                 pollVars, geneVars, scaleVars>>

\* The dendrogram memo is evaluated again for the same hierarchy and the
\* same bounds (a render that does not reuse the value it holds).
Relayout ==
    LET again == Layout(layoutView, hierarchy, layoutDims) IN
    /\ layoutView \in {"static", "fetch", "phylogram"}
    /\ layoutTree # NoTree
    /\ runs < MaxRuns
    /\ runs' = runs + 1
    /\ hierarchy' = again.hierarchy
    /\ dendrogram' = again.dendrogram
    /\ UNCHANGED <<layoutView, layoutTree, layoutDims, zoomVars, parseVars, viewVars,
                 pollVars, geneVars, scaleVars>>

\* The static view: updateDimensions for a container of width w, and the
\* render that follows, in which the dendrogram memo is evaluated.
ResizeLayout(w) ==
    LET d == UpdateDimensions(w)
        next == Layout(layoutView, hierarchy, d) IN
    /\ layoutView = "static"
    /\ d # layoutDims
    /\ layoutDims' = d
    /\ hierarchy' = next.hierarchy
    /\ dendrogram' = next.dendrogram
    /\ UNCHANGED <<layoutView, layoutTree, runs, zoomVars, parseVars, viewVars,
                 pollVars, geneVars, scaleVars>>

NextLayout ==
    \/ \E tree \in LayoutTrees : LoadTree(tree)
    \/ FormatTree
    \/ Relayout
    \/ \E w \in Widths : ResizeLayout(w)

SpecLayout == InitLayout /\ [][NextLayout]_vars

\* What the component returns for the hierarchy, the dimensions and the
\* dendrogram it holds: the error message of the static view, the loading
\* block or the svg with the tree.
LayoutShown ==
    IF layoutView = "static" /\ hierarchy = Null THEN "error"
    ELSE IF hierarchy = Null \/ layoutDims.width = 0 \/ dendrogram = Null THEN "loading"
    ELSE "tree"

\* allNodes and allEdges: the nodes and the links that are drawn
AllNodesDrawn == IF LayoutShown = "tree" THEN DOMAIN hierarchy ELSE {}
AllEdges == IF LayoutShown = "tree" THEN Links(hierarchy) ELSE {}

NextZoom ==
    \/ \E w \in Widths : Resize(w)
    \/ MouseDown
    \/ \E p \in Pans : MouseMove(p[1], p[2])
    \/ MouseUp
    \/ \E k \in Scales2, p \in Pointers : Wheel(k, p)
    \/ DblClick
    \/ Tick

SpecZoom == InitZoom /\ [][NextZoom]_vars

(***************************************************************************)
(* Properties of the viewport (SpecZoom).                                  *)
(***************************************************************************)

\* C1: after every zoom event the transform of the content group has its
\* scale within [0.5, 5] and its x and y translation within
\* [-(W * scale - padding), padding], W the canvas width (height for y).
\* The bounds are doubled like gT.x2 and gT.y2.
C1_AppliedTransformClamped ==
    (Mounted(dimensions) /\ dimensions.boundsWidth > 0) =>
        /\ gT.k2 \in ScaleMin2..ScaleMax2
        /\ gT.x2 >= -(dimensions.width * gT.k2 - 2 * padding)
        /\ gT.x2 <= 2 * padding
        /\ gT.y2 >= -(dimensions.height * gT.k2 - 2 * padding)
        /\ gT.y2 <= 2 * padding

\* C2: recomputing the dimensions of a rendered tree (a resize event) leaves
\* the scale and the translation as they are.
C2_ResizeKeepsTransform ==
    [][(Mounted(dimensions) /\ Mounted(dimensions') /\ lastEvent' = "resize")
          => (zoomT' = zoomT /\ gT' = gT)]_vars

GestureEvents == {"mousedown", "mousemove", "wheel"}

\* C3: a gesture that arrives while the animated reset is in flight cancels
\* it; a mousedown leaves the transform at the value of the last frame; and
\* no frame of a reset follows a gesture, so a cancelled reset never
\* overwrites what the gesture set.
C3_GestureCancelsReset ==
    [][/\ (transition.active /\ lastEvent' \in GestureEvents) => ~transition'.active
       /\ (transition.active /\ lastEvent' = "mousedown") => (zoomT' = zoomT /\ gT' = gT)
       /\ (lastEvent \in GestureEvents \cup {"mouseup"}) => lastEvent' # "tick"]_vars

\* A mousedown has stopped a reset between its first and its last frame: the
\* transform rests on an interpolated value.
C3_Witness ==
    /\ lastEvent = "mousedown"
    /\ resets > 0
    /\ ~transition.active
    /\ zoomT # ResetTransform
    /\ zoomT.x % PanStep # 0

(***************************************************************************)
(* Properties of the parser (SpecParse).                                   *)
(***************************************************************************)

\* The response that carries the arguments of the call.
ResponseOf(a) ==
    [kind |-> "data", tree |-> a.newickString, genomes |-> a.metadata.genomes,
     SCC_values |-> a.metadata.SCC_values,
     sequence_similarity |-> a.metadata.sequence_similarity,
     efp_links |-> a.metadata.efp_links]

Unbalanced(str) == str = UnbalancedAB \/ (Includes(str, "(") /\ ~Includes(str, ")"))

\* C4: parsing "(A,B" fails with the error "Invalid Newick format", as does
\* every text with a "(" and no ")"; no tree, partial or whole, is returned,
\* and the hierarchy of the view that is given this text is null (the error
\* is caught).
C4_UnbalancedFails ==
    (result # NotParsed /\ Unbalanced(args.newickString)) =>
        /\ result = InvalidNewick
        /\ HierarchyOf(ResponseOf(args), args.primaryGene, args.species) = Null

C4_Witness == args.newickString = UnbalancedAB /\ result = InvalidNewick

\* C5: the parser never returns a clade node with zero children (a text with
\* an empty children list fails instead).
C5_NoEmptyClade ==
    Returned => \A node \in AllNodes(result) :
                    node.kind = "clade" => Len(node.children) > 0

\* C6: no node of a returned tree has a NaN branch length (a text after ":"
\* that is not a number fails instead).
C6_NoNaNLength ==
    Returned => \A node \in AllNodes(result) : node.value.kind # "NaN"

\* C7: no node of a returned tree has a branch length below zero, so the
\* distance from the root never decreases from a parent to its child.
C7_NoNegativeLength ==
    Returned => \A node \in AllNodes(result) :
                    node.value.kind = "number" => node.value.n >= 0

(***************************************************************************)
(* Properties of the fetching view (Spec).                                 *)
(***************************************************************************)
ParseFailed ==
    /\ treeData # Null
    /\ NewickToD3(treeData.tree, treeData, primaryGene, species).kind = "error"

\* C8: when parsing the fetched tree fails, the view shows its error state
\* (not the loading state, and no tree).
C8_ParseFailureShown == ParseFailed => ViewShown = "error"

NoEntry(table, leaf) == ToUpperCase(leaf.name) \notin DOMAIN table

\* C9 as claimed: every metadata field of a leaf whose upper-cased name has
\* no entry in the field's lookup table is undefined, and whenever the text
\* parses the tree is laid out and drawn.
C9_MissingEntryAbsent ==
    (error = "" /\ Hierarchy # Null) =>
        /\ ViewShown = "tree"
        /\ \A leaf \in Leaves(Hierarchy) :
              /\ NoEntry(treeData.genomes, leaf) => leaf.metadata.genome = Undefined
              /\ NoEntry(treeData.SCC_values, leaf) => leaf.metadata.scc_value = Undefined
              /\ NoEntry(treeData.sequence_similarity, leaf)
                    => leaf.metadata.sequence_similarity = Undefined
              /\ NoEntry(treeData.efp_links, leaf) => leaf.metadata.efp_link = Undefined

\* C9 amended: as claimed, except that the genome of the leaf that matches
\* the primary gene is the species of the URL whatever the genomes table holds.
C9_MissingEntryAbsentButPrimaryGenome ==
    (error = "" /\ Hierarchy # Null) =>
        /\ ViewShown = "tree"
        /\ \A leaf \in Leaves(Hierarchy) :
              /\ IsPrimaryGene(leaf) => leaf.metadata.genome = Str(species)
              /\ (~IsPrimaryGene(leaf) /\ NoEntry(treeData.genomes, leaf))
                    => leaf.metadata.genome = Undefined
              /\ NoEntry(treeData.SCC_values, leaf) => leaf.metadata.scc_value = Undefined
              /\ NoEntry(treeData.sequence_similarity, leaf)
                    => leaf.metadata.sequence_similarity = Undefined
              /\ NoEntry(treeData.efp_links, leaf) => leaf.metadata.efp_link = Undefined

\* A tree is drawn in which the primary gene and another leaf have no entry
\* in the genomes table, and a leaf has no entry in the SCC table.
C9_Witness ==
    /\ ViewShown = "tree"
    /\ \E leaf \in Leaves(Hierarchy) : IsPrimaryGene(leaf) /\ NoEntry(treeData.genomes, leaf)
    /\ \E leaf \in Leaves(Hierarchy) : ~IsPrimaryGene(leaf) /\ NoEntry(treeData.genomes, leaf)
    /\ \E leaf \in Leaves(Hierarchy) : NoEntry(treeData.SCC_values, leaf)

\* C10: for a leaf that is not the query, the levels computed for rendering
\* without an entry differ from the levels computed for the entry 0, in the
\* MetadataVisualizations bars and in the negSccBars of the phylogram.
C10_NoDataDiffersFromZero ==
    ViewShown = "tree" =>
        \A leaf \in Leaves(Hierarchy) :
            ~IsPrimaryGene(leaf) =>
                /\ leaf.metadata.scc_value = Undefined =>
                      /\ ExpressionLevel(leaf.metadata, FALSE)
                           # ExpressionLevel([leaf.metadata EXCEPT !.scc_value = Num(0)], FALSE)
                      /\ NegSccBarWidth(treeData.SCC_values, leaf.name, primaryGene)
                           # NegSccBarWidth((leaf.name :> Num(0)) @@ treeData.SCC_values,
                                            leaf.name, primaryGene)
                /\ leaf.metadata.sequence_similarity = Undefined =>
                      SequenceSimilarity(leaf.metadata, FALSE)
                        # SequenceSimilarity(
                              [leaf.metadata EXCEPT !.sequence_similarity = Num(0)], FALSE)

\* C11: for every leaf whose name is the primary gene but for the letter
\* case, the sequence similarity and the expression level that are shown are
\* the full-scale ones whatever the tables hold for the name: level 1 in the
\* bars of the views, and in the phylogram a sequence bar of width 50 and an
\* expression bar on the positive side that is at least 25 wide.
C11_PrimaryGeneFullScale ==
    ViewShown = "tree" =>
        \A leaf \in Leaves(Hierarchy) :
            IsPrimaryGene(leaf) =>
                /\ SequenceSimilarity(leaf.metadata, IsPrimaryGene(leaf)) = 1
                /\ ExpressionLevel(leaf.metadata, IsPrimaryGene(leaf)) = 1
                /\ SequenceSimilarity(leaf.metadata, IsPrimaryGeneExact(leaf)) = 1
                /\ ExpressionLevel(leaf.metadata, IsPrimaryGeneExact(leaf)) = 1
                /\ SeqBarWidth2(treeData.sequence_similarity, leaf.name, primaryGene)
                      = Num(2 * 50)
                /\ NegSccBarX(treeData.SCC_values, leaf.name, primaryGene) = 429
                /\ NegSccBarWidth(treeData.SCC_values, leaf.name, primaryGene) >= 25

\* The nodes of the laid-out tree that have no children
LaidOut == dendrogram = Root
LeafPaths == {p \in DOMAIN hierarchy : IsLeaf(hierarchy, p)}

\* C12: after the layout of the fetching view, which aligns the leaves,
\* the y of every leaf is the greatest y of the tree, whatever the shape
\* of the tree; a tree of one node has its only node at that y.
C12_LeavesAligned ==
    (layoutView = "fetch" /\ LaidOut) =>
        \A p \in LeafPaths :
            hierarchy[p].y = FMax({hierarchy[q].y : q \in DOMAIN hierarchy})

\* (A,(B,C)); is laid out: leaves at depth 1 and at depth 2, and a node with
\* children strictly between the root and the leaves.
C12_Witness ==
    /\ layoutView = "fetch"
    /\ LaidOut
    /\ layoutTree = ScenarioB
    /\ \E p, q \in LeafPaths : hierarchy[p].depth # hierarchy[q].depth
    /\ \E p \in DOMAIN hierarchy \ LeafPaths : \E q \in LeafPaths :
           FLess(hierarchy[<<>>].y, hierarchy[p].y) /\ FLess(hierarchy[p].y, hierarchy[q].y)

\* The names of the leaves of h, from the first leaf to the last
LeafNames(h) ==
    LET leaves == LeafSeq(h, <<>>) IN [i \in 1..Len(leaves) |-> h[leaves[i]].name]

\* The names of the leaves in the order of the text
ParsedLeafNames == LeafNames(D3Hierarchy(NewickToD3(layoutTree, NoData, <<>>, <<>>)))

\* The leaves of the laid-out tree by increasing x
LeavesByX ==
    LET leaves == LeafSeq(hierarchy, <<>>) IN
    IF \A i \in 1..(Len(leaves) - 1) :
           FLess(hierarchy[leaves[i]].x, hierarchy[leaves[i + 1]].x)
      THEN LeafNames(hierarchy)
      ELSE <<>>

\* C13: the leaves are laid out in the order of the text, every leaf at an
\* x of its own that is greater than the x of the leaf before it;
\* for (A,(B,C)); that is A.x < B.x < C.x.
C13_ParsedOrder ==
    (layoutView # "none" /\ LaidOut) => LeavesByX = ParsedLeafNames

\* C14: in the phylogram, built without skipBranchLengthScaling, the y of
\* every node is its cumulative branch length from the root, scaled from
\* [0, the greatest cumulative length] to [0, width]; for (A:1,B:2); with
\* bounds 100 x 100 that puts A at 50 and B at 100.
C14_BranchLengthsScaled ==
    (layoutView = "phylogram" /\ LaidOut
        /\ \E p \in DOMAIN hierarchy : RootDist(hierarchy, p) > 0) =>
        /\ \A p \in DOMAIN hierarchy :
               hierarchy[p].y = ScaleBranchLengths(hierarchy, layoutDims.width)[p].y
        /\ layoutTree = ScenarioA =>
               \E a, b \in LeafPaths :
                   /\ hierarchy[a].name = <<"A">>
                   /\ hierarchy[b].name = <<"B">>
                   /\ FLess(hierarchy[a].y, hierarchy[b].y)

\* The tree of the view has been laid out with its leaves aligned
Aligned ==
    \/ layoutView = "fetch" /\ LaidOut
    \/ layoutView = "navigator" /\ hierarchy # Null

\* C15: in a tree whose leaves have been aligned the root has depth 0 and
\* every other node has the depth of its parent plus 1.
C15_DepthMonotone ==
    Aligned =>
        /\ hierarchy[<<>>].depth = 0
        /\ \A p \in DOMAIN hierarchy \ {<<>>} :
               hierarchy[p].depth = hierarchy[Parent(p)].depth + 1

\* C16: when the layout is computed again for the hierarchy and the bounds
\* of the run before, every node keeps its x, its y and its parentY (and
\* everything else it holds), and the result of the memo is the same.
C16_LayoutIdempotent ==
    [][runs' # runs => (hierarchy' = hierarchy /\ dendrogram' = dendrogram)]_vars

\* (A,(B,C)); has been laid out, and then laid out again, in the fetching
\* view: its nodes hold coordinates that are not 0.
C16_Witness ==
    /\ layoutView = "fetch"
    /\ layoutTree = ScenarioB
    /\ LaidOut
    /\ runs = MaxRuns
    /\ \E p \in DOMAIN hierarchy :
           /\ FLess(Whole(0), hierarchy[p].x)
           /\ FLess(Whole(0), hierarchy[p].y)
           /\ FLess(Whole(0), hierarchy[p].parentY)

\* The bounds of the static or the fetching view have no width or no height
ZeroBounds(d) ==
    /\ layoutView \in {"static", "fetch"}
    /\ d.boundsWidth = 0 \/ d.boundsHeight = 0

\* C17: with bounds of width 0 or of height 0 the dendrogram memo is null,
\* the component shows no tree (no node and no link is drawn), and a step
\* that ends with such bounds writes no coordinate to a node.
C17_ZeroBoundsNoLayout ==
    /\ [](ZeroBounds(layoutDims) =>
             /\ dendrogram = Null
             /\ LayoutShown # "tree"
             /\ AllNodesDrawn = {}
             /\ AllEdges = {})
    /\ [][ZeroBounds(layoutDims') => hierarchy' = hierarchy]_vars

\* The static view was laid out in a container 300 wide and the container
\* is now 120 wide, which leaves the bounds no width.
C17_Witness ==
    /\ layoutView = "static"
    /\ layoutDims.width = 120
    /\ layoutDims.boundsWidth = 0
    /\ layoutDims.boundsHeight > 0
    /\ dendrogram = Null
    /\ \E p \in DOMAIN hierarchy : hierarchy[p].x # NoCoord

\* MIN_NODE_SPACING of the component, and the lateral extent its
\* generator lays the tree out in
MinNodeSpacing == IF layoutView = "static" THEN MIN_NODE_SPACING_A ELSE MIN_NODE_SPACING
LateralExtent ==
    IF layoutView = "static" THEN GeneratorA(layoutDims).dx ELSE Generator(layoutDims).dx

\* C18: whatever the number of leaves and the size of the container, the
\* lateral extent of the layout is at least MIN_NODE_SPACING for every leaf
\* and two leaves that follow each other are at least MIN_NODE_SPACING apart.
C18_MinimumLeafSpacing ==
    (layoutView \in {"static", "fetch"} /\ LaidOut) =>
        LET leaves == LeafSeq(hierarchy, <<>>) IN
        /\ FLeq(Whole(Len(leaves) * MinNodeSpacing), LateralExtent)
        /\ \A i \in 1..(Len(leaves) - 1) :
               FLeq(Whole(MinNodeSpacing),
                    FSub(hierarchy[leaves[i + 1]].x, hierarchy[leaves[i]].x))

RECURSIVE SumOfX(_, _)
\* The sum of the x of the children of p from the k-th on
SumOfX(p, k) ==
    IF k > hierarchy[p].nchildren THEN Whole(0)
    ELSE FAdd(hierarchy[Append(p, k)].x, SumOfX(p, k + 1))

MidpointOfExtremes(p) ==
    FDiv(FAdd(hierarchy[Append(p, 1)].x, hierarchy[Append(p, hierarchy[p].nchildren)].x),
         Whole(2))

ClusterLaidOut == layoutView \in {"static", "fetch", "phylogram"} /\ LaidOut

\* C19 as stated: after the layout the x of every node with children is
\* half way between the x of its first and the x of its last child.
C19_MidpointOfExtremes ==
    ClusterLaidOut =>
        \A p \in DOMAIN hierarchy \ LeafPaths : hierarchy[p].x = MidpointOfExtremes(p)

\* C19: after the layout the x of every node with children is the mean of
\* the x of all its children, which for a node with one or two children is
\* half way between the first and the last.
C19_MeanOfChildren ==
    ClusterLaidOut =>
        \A p \in DOMAIN hierarchy \ LeafPaths :
            /\ hierarchy[p].x = FDiv(SumOfX(p, 1), Whole(hierarchy[p].nchildren))
            /\ hierarchy[p].nchildren <= 2 => hierarchy[p].x = MidpointOfExtremes(p)

\* ((A,B),C,D); is laid out: its root has three children and is not half
\* way between the first and the last.
C19_Witness ==
    /\ ClusterLaidOut
    /\ layoutTree = Ternary
    /\ hierarchy[<<>>].nchildren = 3
    /\ hierarchy[<<>>].x # MidpointOfExtremes(<<>>)
    /\ \E p \in DOMAIN hierarchy : hierarchy[p].nchildren = 2

RECURSIVE Compress(_)
\* The points of a path without the segments of length 0
Compress(path) ==
    IF Len(path) <= 1 THEN path
    ELSE IF path[1] = path[2] THEN Compress(Tail(path))
    ELSE <<path[1]>> \o Compress(Tail(path))

\* The path drawn for a link: allEdges in the fetching view, the diagonal
\* of rightAngleDiagonal in the phylogram
ConnectorPath(link) ==
    IF layoutView = "fetch" THEN AllEdgesPath(hierarchy, link)
    ELSE RightAngleDiagonal(hierarchy, link)

ConnectorsDrawn == layoutView \in {"fetch", "phylogram"} /\ LaidOut

\* Every segment of the path changes the depth coordinate or the lateral
\* coordinate, never both
AxisParallel(path) ==
    \A i \in 1..(Len(path) - 1) : path[i][1] = path[i + 1][1] \/ path[i][2] = path[i + 1][2]

\* C20 as stated: every connector is axis-parallel, goes from the source
\* along the depth axis to the depth of the target, then along the lateral
\* axis to the target, where it ends.
C20_DepthFirstThenLateral ==
    ConnectorsDrawn =>
        \A link \in Links(hierarchy) :
            LET source == hierarchy[link[1]]
                target == hierarchy[link[2]]
                path == ConnectorPath(link)
            IN /\ AxisParallel(path)
               /\ Compress(path) = Compress(<< <<source.y, source.x>>,
                                               <<target.y, source.x>>,
                                               <<target.y, target.x>> >>)

\* C20: every connector of allEdges and of rightAngleDiagonal is
\* axis-parallel, goes from the source along the lateral axis to the
\* lateral coordinate of the target, at the depth of the source, then along
\* the depth axis to the target, where it ends.
C20_LateralFirstThenDepth ==
    ConnectorsDrawn =>
        \A link \in Links(hierarchy) :
            LET source == hierarchy[link[1]]
                target == hierarchy[link[2]]
                path == ConnectorPath(link)
            IN /\ AxisParallel(path)
               /\ Compress(path) = Compress(<< <<source.y, source.x>>,
                                               <<source.y, target.x>>,
                                               <<target.y, target.x>> >>)
               /\ path[Len(path)] = <<target.y, target.x>>

\* (A,(B,C)); is drawn in the fetching view: a link whose ends differ in
\* depth and in lateral coordinate, so that its connector has a bend.
C20_Witness ==
    /\ layoutView = "fetch"
    /\ LaidOut
    /\ layoutTree = ScenarioB
    /\ \E link \in Links(hierarchy) :
           /\ hierarchy[link[1]].x # hierarchy[link[2]].x
           /\ hierarchy[link[1]].y # hierarchy[link[2]].y
           /\ Len(Compress(ConnectorPath(link))) = 3

\* C21: in the fetching view, which aligns the leaves, every node but the
\* root holds a parentY, it is the y its parent is drawn at, the connector
\* of the link bends there, and that is before the y of the aligned leaves.
C21_ElbowAtParent ==
    (layoutView = "fetch" /\ LaidOut) =>
        \A link \in Links(hierarchy) :
            LET source == hierarchy[link[1]]
                target == hierarchy[link[2]]
                path == AllEdgesPath(hierarchy, link)
            IN /\ target.parentY # NoCoord
               /\ target.parentY = source.y
               /\ path[2][1] = source.y /\ path[3][1] = source.y
               /\ \A p \in LeafPaths : FLess(source.y, hierarchy[p].y)

\* The tree of NEWICK_STRING is drawn in the fetching view: a link from a
\* node that is neither the root nor at the depth of the leaves to a leaf.
C21_Witness ==
    /\ layoutView = "fetch"
    /\ LaidOut
    /\ layoutTree = NEWICK_STRING
    /\ \E link \in Links(hierarchy) :
           /\ link[1] # <<>>
           /\ link[2] \in LeafPaths
           /\ FLess(Whole(0), hierarchy[link[2]].parentY)
           /\ FLess(hierarchy[link[2]].parentY, hierarchy[link[2]].y)

(***************************************************************************)
(* The grammar of the input, read from the left:                           *)
(*   tree := clade ';'? | leaf                                             *)
(*   clade := '(' node (',' node)* ')' name? (':' number)?                 *)
(*   leaf := name (':' number)?                                            *)
(* a name being a run of characters other than ( ) , : ; and a number an   *)
(* optional sign and digits.  A node read is [ok, name, children, next],   *)
(* next being the position after it.                                       *)
(***************************************************************************)
NameChar(c) == c \notin {"(", ")", ",", ":", ";"}

NoNode == [ok |-> FALSE, name |-> <<>>, children |-> <<>>, next |-> 0]

RECURSIVE NameEnd(_, _)
NameEnd(str, i) ==
    IF i <= Len(str) /\ NameChar(str[i]) THEN NameEnd(str, i + 1) ELSE i

RECURSIVE DigitsEnd(_, _)
DigitsEnd(str, i) ==
    IF i <= Len(str) /\ str[i] \in Digits THEN DigitsEnd(str, i + 1) ELSE i

\* The position after the number that starts at i, 0 when there is none
NumberEnd(str, i) ==
    LET from == IF i <= Len(str) /\ str[i] \in {"-", "+"} THEN i + 1 ELSE i IN
    IF DigitsEnd(str, from) = from THEN 0 ELSE DigitsEnd(str, from)

\* The name from i on and the branch length after it
Trailer(str, i, children) ==
    LET e == NameEnd(str, i) IN
    IF e <= Len(str) /\ str[e] = ":"
      THEN IF NumberEnd(str, e + 1) = 0 THEN NoNode
           ELSE [ok |-> TRUE, name |-> SubSeq(str, i, e - 1), children |-> children,
                 next |-> NumberEnd(str, e + 1)]
      ELSE [ok |-> TRUE, name |-> SubSeq(str, i, e - 1), children |-> children, next |-> e]

RECURSIVE GrammarNode(_, _)
RECURSIVE GrammarChildren(_, _)
GrammarNode(str, i) ==
    IF i > Len(str) THEN NoNode
    ELSE IF str[i] = "("
      THEN LET kids == GrammarChildren(str, i + 1) IN
           IF ~kids.ok \/ kids.next > Len(str) THEN NoNode
           ELSE IF str[kids.next] # ")" THEN NoNode
           ELSE Trailer(str, kids.next + 1, kids.children)
    ELSE IF NameEnd(str, i) = i THEN NoNode
    ELSE Trailer(str, i, <<>>)

GrammarChildren(str, i) ==
    LET first == GrammarNode(str, i) IN
    IF ~first.ok THEN NoNode
    ELSE IF first.next <= Len(str) /\ str[first.next] = ","
      THEN LET rest == GrammarChildren(str, first.next + 1) IN
           IF ~rest.ok THEN NoNode
           ELSE [rest EXCEPT !.children = <<first>> \o rest.children]
    ELSE [ok |-> TRUE, name |-> <<>>, children |-> <<first>>, next |-> first.next]

GrammarTree(str) == GrammarNode(str, 1)

GrammarValid(str) ==
    LET tree == GrammarTree(str) IN
    /\ tree.ok
    /\ \/ tree.next = Len(str) + 1
       \/ tree.next = Len(str) /\ str[Len(str)] = ";" /\ str[1] = "("

RECURSIVE SameNesting(_, _)
\* The parsed node has the children of the node of the text, in number and
\* in order, and a leaf has the name of its token
SameNesting(written, node) ==
    IF written.children = <<>>
      THEN node.kind = "leaf" /\ node.name = Trim(written.name)
      ELSE /\ node.kind = "clade"
           /\ Len(node.children) = Len(written.children)
           /\ \A k \in 1..Len(written.children) :
                  SameNesting(written.children[k], node.children[k])

Parsed == result # NotParsed

\* C22: for every text of the grammar the parser returns a tree with the
\* nesting of the text: every clade has the children that are written, in
\* number and in order, and the leaves have the names of the leaf tokens.
C22_NestingOfText ==
    (Parsed /\ GrammarValid(args.newickString)) =>
        /\ Returned
        /\ SameNesting(GrammarTree(args.newickString), result)

\* The depth of the deepest node of the tree that is held
TreeDepth == CHOOSE m \in {Len(p) : p \in DOMAIN hierarchy} :
                 \A p \in DOMAIN hierarchy : Len(p) <= m

\* C23: in the NavigatorView, after alignLeafNodes, the depth attribute of
\* every leaf is the depth of the deepest leaf of the tree and every node
\* with children has the depth that formatTreeData gave it, the number of
\* arcs from the root.
C23_LeavesAtMaxDepth ==
    (layoutView = "navigator" /\ hierarchy # Null) =>
        \A p \in DOMAIN hierarchy :
            hierarchy[p].depth = IF IsLeaf(hierarchy, p) THEN TreeDepth ELSE Len(p)

\* C24: whatever the order of the changes of apiUrl and of the ends of the
\* fetches, the tree data that is held, and the tree that is shown with the
\* primary gene and the species of the current URL, is the response to the
\* current apiUrl.
C24_DataOfCurrentUrl ==
    /\ treeData # Null => treeUrl = apiUrl
    /\ ViewShown = "tree" =>
           /\ treeUrl = apiUrl
           /\ primaryGene = ExtractPrimaryGene(treeUrl)
           /\ species = ExtractSpecies(treeUrl)

\* C25: while the svg is rendered, the transform that the zoom behaviour
\* holds, from which the next gesture goes on, is the transform that the
\* content group was given, after every event.
C25_HeldIsApplied ==
    Mounted(dimensions) =>
        /\ gT.k2 = zoomT.k2
        /\ gT.x2 = 2 * zoomT.x
        /\ gT.y2 = 2 * zoomT.y

\* C26: whatever the width of the container, either the dendrogram memo
\* holds no layout or the layout was computed for bounds whose width and
\* height are both greater than 0.
C26_PositiveBounds ==
    (layoutView \in {"static", "fetch"} /\ LaidOut) =>
        /\ layoutDims.boundsWidth > 0
        /\ layoutDims.boundsHeight > 0

RECURSIVE OpenAfter(_, _)
\* The number of "(" open after the first i characters of str, -1 once a
\* ")" has come without a "(" to close
OpenAfter(str, i) ==
    IF i = 0 THEN 0
    ELSE LET before == OpenAfter(str, i - 1) IN
         IF before < 0 THEN -1
         ELSE IF str[i] = "(" THEN before + 1
         ELSE IF str[i] = ")" THEN before - 1
         ELSE before

Balanced(str) == OpenAfter(str, Len(str)) = 0

\* C27: a tree is returned only for a text in which every "(" has its ")"
\* and every ")" its "(", and no node of a returned tree has a "(" or a
\* ")" in its name.
C27_BalancedOrRejected ==
    Returned =>
        /\ Balanced(args.newickString)
        /\ \A node \in AllNodes(result) :
               ~Includes(node.name, "(") /\ ~Includes(node.name, ")")

(***************************************************************************)
(* SpecPoll: the Dendrogram that waits for the phylogram script.  Its      *)
(* effect depends on [data], an object that every render creates, so the   *)
(* effect runs after every render; it has no cleanup.  Every run starts    *)
(* a chain of initializePhylogram calls, 100 ms apart, that ends with      *)
(* the build.                                                              *)
(***************************************************************************)
MaxEffects == 3           \* runs of the effect
NewickProps == {1, 2}     \* the values of the newick prop

\* The chain of an effect run: the data its closure holds, the number of
\* changes of the data before it (history), and where the chain is.
Chain(d, n, st) == [newick |-> d, change |-> n, state |-> st]

Changes == IF chains = <<>> THEN 0 ELSE chains[Len(chains)].change

\* initializePhylogram, called by the effect or by the timer: the call is
\* rescheduled without window.d3.phylogram; otherwise the container is
\* cleared and the phylogram is built in it, which throws when
\* containerRef.current is null.
InitializePhylogram(isAvailable, isMounted) ==
    IF ~isAvailable THEN "polling"
    ELSE IF isMounted THEN "built"
    ELSE "threw"

\* The mount and the first render, with the effect of that render.
InitPoll ==
    /\ ZoomIdle /\ ParseIdle /\ ViewIdle /\ LayoutIdle /\ GeneIdle /\ ScaleIdle
    /\ available \in BOOLEAN
    /\ mounted = TRUE
    /\ newick \in NewickProps
    /\ chains = << Chain(newick, 0, InitializePhylogram(available, TRUE)) >>
    /\ container = IF available THEN <<newick>> ELSE <<>>

\* A render with the newick prop d (the same as before or another), and the
\* effect that follows it.
Render(d) ==
    LET st == InitializePhylogram(available, TRUE) IN
    /\ mounted
    /\ Len(chains) < MaxEffects
    /\ newick' = d
    /\ chains' = Append(chains, Chain(d, IF d = newick THEN Changes ELSE Changes + 1, st))
    /\ container' = IF st = "built" THEN <<d>> ELSE container
    /\ UNCHANGED <<available, mounted, zoomVars, parseVars, viewVars, layoutVars,
                   geneVars, scaleVars>>

\* The script has run: window.d3.phylogram is defined.
ScriptLoaded ==
    /\ ~available
    /\ available' = TRUE
    /\ UNCHANGED <<mounted, newick, chains, container, zoomVars, parseVars, viewVars,
                   layoutVars, geneVars, scaleVars>>

\* The timer of chain c fires.
Poll(c) ==
    LET st == InitializePhylogram(available, mounted) IN
    /\ c \in DOMAIN chains
    /\ chains[c].state = "polling"
    /\ chains' = [chains EXCEPT ![c].state = st]
    /\ container' = IF st = "built" THEN <<chains[c].newick>> ELSE container
    /\ UNCHANGED <<available, mounted, newick, zoomVars, parseVars, viewVars,
                   layoutVars, geneVars, scaleVars>>

\* The component is unmounted: containerRef.current becomes null.
Unmount ==
    /\ mounted
    /\ mounted' = FALSE
    /\ UNCHANGED <<available, newick, chains, container, zoomVars, parseVars, viewVars,
                   layoutVars, geneVars, scaleVars>>

NextPoll ==
    \/ \E d \in NewickProps : Render(d)
    \/ ScriptLoaded
    \/ \E c \in 1..MaxEffects : Poll(c)
    \/ Unmount

SpecPoll == InitPoll /\ [][NextPoll]_vars

\* The chains that have built the phylogram for the n-th value of the data
BuildsOf(n) == {c \in DOMAIN chains : chains[c].change = n /\ chains[c].state = "built"}

\* C28: the phylogram is built at most once for every value that the data
\* takes, and the only chain that is still polling is the one of the last
\* effect run of a mounted component.
C28_OneBuildPerChange ==
    /\ \A n \in 0..MaxEffects : Cardinality(BuildsOf(n)) <= 1
    /\ \A c \in DOMAIN chains :
           chains[c].state = "polling" => (mounted /\ c = Len(chains))

(***************************************************************************)
(* SpecGenes: the gene list of LeftNav.  The list is the state of the      *)
(* GenesContext; addGeneticElements and the effect read the list of the    *)
(* render that created them (closure) and set the state.                   *)
(***************************************************************************)
MaxGenes == 3     \* the longest gene list
MaxAdd == 2       \* the longest argument of addGeneticElements

\* Genetic elements: two different objects have the id AT1
Genes == {[id |-> "AT1", alias |-> "a"], [id |-> "AT1", alias |-> "b"],
          [id |-> "AT2", alias |-> "a"]}

GeneLists(n) == UNION {[1..k -> Genes] : k \in 0..n}

\* list.find((gene) => id == gene.id) finds an element
Find(list, id) == \E k \in DOMAIN list : list[k].id = id

RECURSIVE UniqBy(_)
\* A variant that keeps every element.
KeepAll(list) == list

\* _.uniqBy(list, (g) => g.id): the first element of every id, in order
UniqBy(list) ==
    IF list = <<>> THEN <<>>
    ELSE LET front == UniqBy(SubSeq(list, 1, Len(list) - 1))
             last == list[Len(list)]
         IN IF Find(front, last.id) THEN front ELSE Append(front, last)

\* s.filter((g) => !geneticElements.find((gene) => g.id == gene.id))
NotIn(s, list) == SelectSeq(s, LAMBDA g : ~Find(list, g.id))

\* The first render of LeftNav for the list that the context was created
\* with; the effect of that render has not run yet.
InitGenes ==
    /\ ZoomIdle /\ ParseIdle /\ ViewIdle /\ LayoutIdle /\ PollIdle /\ ScaleIdle
    /\ geneticElements \in GeneLists(MaxAdd)
    /\ closure = geneticElements
    /\ dirty = FALSE
    /\ effectDue = TRUE
    /\ lastAdd = <<>>
    /\ activeGene = ""

\* addGeneticElements(s) of the SearchGroup: the genes of s that the list
\* does not hold, once each, are appended and the first gene of s becomes
\* the active gene.
AddGeneticElements(s) ==
    LET added == closure \o UniqBy(NotIn(s, closure)) IN
    /\ Len(added) <= MaxGenes
    /\ geneticElements' = added
    /\ dirty' = TRUE
    /\ lastAdd' = s
    /\ activeGene' = IF Len(s) > 0 THEN s[1].id ELSE activeGene
    /\ UNCHANGED <<closure, effectDue, zoomVars, parseVars, viewVars, layoutVars,
                   pollVars, scaleVars>>

\* LeftNav renders for the list that has been set.
RenderLeftNav ==
    /\ dirty
    /\ closure' = geneticElements
    /\ dirty' = FALSE
    /\ effectDue' = TRUE
    /\ UNCHANGED <<geneticElements, lastAdd, activeGene, zoomVars, parseVars, viewVars,
                   layoutVars, pollVars, scaleVars>>

\* The effect on [geneticElements]: the list without its duplicates is set
\* when it is shorter.
UniqEffect ==
    LET uniq == UniqBy(closure) IN
    /\ effectDue
    /\ effectDue' = FALSE
    /\ IF Len(uniq) # Len(closure)
         THEN geneticElements' = uniq /\ dirty' = TRUE
         ELSE UNCHANGED <<geneticElements, dirty>>
    /\ UNCHANGED <<closure, lastAdd, activeGene, zoomVars, parseVars, viewVars,
                   layoutVars, pollVars, scaleVars>>

NextGenes ==
    \/ \E s \in GeneLists(MaxAdd) : AddGeneticElements(s)
    \/ RenderLeftNav
    \/ UniqEffect

SpecGenes == InitGenes /\ [][NextGenes]_vars

\* LeftNav has rendered the list that is set and the effect of that render
\* has run.
Settled == ~dirty /\ ~effectDue

\* C29: once LeftNav has rendered the gene list and its effect has run, no
\* two elements of the list have the same id, whatever addGeneticElements
\* was given.
C29_NoDuplicateIds ==
    Settled =>
        \A j, k \in DOMAIN geneticElements :
            geneticElements[j].id = geneticElements[k].id => j = k

\* The last call passed the same gene twice, a gene that the list holds now
\* next to another one.
C29_Witness ==
    /\ Settled
    /\ Len(lastAdd) = 2
    /\ lastAdd[1].id = lastAdd[2].id
    /\ Find(geneticElements, lastAdd[1].id)
    /\ Len(geneticElements) = 2

(***************************************************************************)
(* SpecScale: scaleBranchLengths(nodes, w) applied to the nodes of a       *)
(* tree that the cluster layout has laid out.                              *)
(***************************************************************************)
MaxScaleLen == 4      \* the longest text of ScaleTrees made of ScaleAlphabet

ScaleAlphabet == {"(", ")", ",", "A", ":", "1"}

NegativeRoot == <<"A", ":", "-", "1">>                                   \* A:-1
Nested == <<"(", "(", "A", ":", "1", ",", "B", ":", "2", ")", ":", "1", ",",
            "C", ":", "0", ")", ";">>                                   \* ((A:1,B:2):1,C:0);

ScaleTrees == UNION {[1..n -> ScaleAlphabet] : n \in 1..MaxScaleLen}
                \cup {ScenarioA, ScenarioB, NegativeLength, NegativeRoot, Nested}

ScaleWidths == {100, 160}

InitScale ==
    /\ ZoomIdle /\ ParseIdle /\ ViewIdle /\ LayoutIdle /\ PollIdle /\ GeneIdle
    /\ scaleText \in ScaleTrees
    /\ scaleW \in ScaleWidths
    /\ scaleNodes = Null
    /\ rootDist = <<>>

\* The nodes of the text, laid out by the cluster layout of the phylogram,
\* are given to scaleBranchLengths with w.
Scale ==
    LET h == HierarchyMemo("phylogram", scaleText)
        nodes == Cluster(h, TreeLayout([width |-> scaleW, height |-> scaleW])) IN
    /\ scaleNodes = Null
    /\ h # Null
    /\ scaleNodes' = ScaleBranchLengths(nodes, scaleW)
    /\ rootDist' = [p \in DOMAIN h |-> RootDist(nodes, p)] @@ <<>>
    /\ UNCHANGED <<scaleText, scaleW, zoomVars, parseVars, viewVars, layoutVars,
                   pollVars, geneVars>>

NextScale == Scale

SpecScale == InitScale /\ [][NextScale]_vars

Scaled == scaleNodes # Null

RECURSIVE PathSum(_, _)
\* The sum of the branch lengths of the first k arcs of the path p and of
\* the root, an absent length counting as 0
PathSum(p, k) ==
    LET node == scaleNodes[SubSeq(p, 1, k)]
        own == IF node.length.kind = "number" THEN node.length.n ELSE 0
    IN IF k = 0 THEN own ELSE PathSum(p, k - 1) + own

\* The largest rootDist
Furthest == CHOOSE m \in {rootDist[p] : p \in DOMAIN rootDist} :
                \A p \in DOMAIN rootDist : rootDist[p] <= m

InRangeOfW(y) == FLeq(Whole(0), y) /\ FLeq(y, Whole(scaleW))

\* C30 as stated: after scaleBranchLengths the rootDist of every node is
\* the sum of the branch lengths from the root to it, every y is in
\* [0, w] and a node with the largest rootDist has y = w, whatever the
\* branch lengths are.
C30_ScaledToW ==
    Scaled =>
        \A p \in DOMAIN scaleNodes :
            /\ rootDist[p] = PathSum(p, Len(p))
            /\ InRangeOfW(scaleNodes[p].y)
            /\ rootDist[p] = Furthest => scaleNodes[p].y = Whole(scaleW)

\* C30, amended: the rootDist of every node is the sum of the branch
\* lengths from the root to it; when the largest rootDist is not 0 a node
\* that has it gets y = w and, the largest being positive, every node
\* with a rootDist of 0 or more gets a y in [0, w]; when the largest
\* rootDist is 0 (all lengths zero or absent) every node gets y = 0.
C30_ScaledToWOrZero ==
    Scaled =>
        \A p \in DOMAIN scaleNodes :
            /\ rootDist[p] = PathSum(p, Len(p))
            /\ (Furthest # 0 /\ rootDist[p] = Furthest) => scaleNodes[p].y = Whole(scaleW)
            /\ (Furthest > 0 /\ rootDist[p] >= 0) => InRangeOfW(scaleNodes[p].y)
            /\ Furthest = 0 => scaleNodes[p].y = Whole(0)

\* A tree of several nodes without a branch length has been scaled for a
\* positive w: every node is at y = 0.
C30_Witness ==
    /\ Scaled
    /\ scaleText = ScenarioB
    /\ scaleW = 100
    /\ Furthest = 0
    /\ Cardinality(DOMAIN scaleNodes) = 5
    /\ \A p \in DOMAIN scaleNodes : scaleNodes[p].y = Whole(0)

=============================================================================
